---- MODULE Spec2Model ----
(***************************************************************************)
(* tt-audio-lab, presentation side (App.vue script, stores/settings.ts):   *)
(* the render governor, the automatic quality downgrade with its settings  *)
(* persistence, the analysis-frame listener and the bars renderer backend  *)
(* selection.                                                              *)
(*                                                                         *)
(* Units.  Timestamps (performance.now(), rAF timestamps) are whole        *)
(* milliseconds.  Frame durations and frame budgets are hundredths of a    *)
(* millisecond (4.2 ms = 420, 16.67 ms = 1667, 0.5 ms = 50).  Amplitudes   *)
(* are thousandths (1.0 = 1000) and products are truncated; staleDecay is  *)
(* in thousandths (0.995 = 995).                                           *)
(***************************************************************************)
EXTENDS Integers, Sequences, FiniteSets, TLC

-----------------------------------------------------------------------------
(* Bounds of the model *)

\* the clock stops advancing at this timestamp
MaxTime == 13000
\* the same, where every animation frame comes after a long stall
MaxStallTime == 21000
\* the same, for the runs that watch the render buffers
MaxRenderTime == 5000
\* animation frames delivered back to back by one RenderFrames step
SmoothFrames == 125
\* the same, for the runs that watch the render loop
MaxLoopTime == 16000
\* GPU objects that may be left allocated before the probes stop failing
MaxLeaked == 2
\* user edits of the quality field per run
MaxEdits == 1
\* presses of Apply per run
MaxApplies == 1
\* RenderFrames steps per run
MaxBursts == 1
\* the clock stops here in the runs that watch the display bins
MaxDisplayTime == 1016
\* animation frames per run in the runs that watch the elapsed time
MaxElapsedFrames == 3
\* app:click_through_changed events per run
MaxClickEvents == 1
\* calls of a loop's start and stop function on their own per run
MaxLoopCalls == 2

-----------------------------------------------------------------------------
(* Program constants *)

NULL == "null"

\* an absent record, and a present one
None == <<>>

Some(value) == <<value>>

PERF_WINDOW_MS == 6000
PERF_EVAL_INTERVAL_MS == 1000
FPS_WINDOW_MS == 1000
AUTO_DOWNGRADE_HOLD_MS == 5000
STALE_AFTER_MS == 140
BUFFER_BINS == 64
RAW_FULL_SCALE == 1023

QUALITY_ORDER == <<"ultra", "high", "balanced">>

QUALITY_SET == {"ultra", "high", "balanced"}

QUALITY_PROFILE ==
  [ultra    |-> [binCount |-> 64, frameBudgetMs |-> 420,  interpolationMs |-> 12, staleDecay |-> 995],
   high     |-> [binCount |-> 48, frameBudgetMs |-> 830,  interpolationMs |-> 18, staleDecay |-> 992],
   balanced |-> [binCount |-> 32, frameBudgetMs |-> 1670, interpolationMs |-> 24, staleDecay |-> 988]]

-----------------------------------------------------------------------------
(* JavaScript values, as far as the settings code tells them apart.  Numbers
   are hundredths. *)

JsUndefined == [type |-> "undefined"]

JsNull == [type |-> "null"]

JsNumber(n) == [type |-> "number", num |-> n]

NaN == [type |-> "number", nan |-> TRUE]

JsString(text) == [type |-> "string", str |-> text]

JsBoolean(b) == [type |-> "boolean", bool |-> b]

JsObject(fields) == [type |-> "object", fields |-> fields]

IsNaN(v) == v = NaN

\* Number(text) for the strings the model uses
StringToNumber(text) ==
  IF text = "" THEN JsNumber(0)
  ELSE IF text = "5" THEN JsNumber(500)
  ELSE NaN

\* Number(v)
Number(v) ==
  CASE v.type = "number"    -> v
    [] v.type = "undefined" -> NaN
    [] v.type = "null"      -> JsNumber(0)
    [] v.type = "boolean"   -> JsNumber(IF v.bool THEN 100 ELSE 0)
    [] v.type = "string"    -> StringToNumber(v.str)
    [] v.type = "object"    -> NaN

\* Boolean(v)
Boolean(v) ==
  CASE v.type = "number"    -> ~IsNaN(v) /\ v.num # 0
    [] v.type = "undefined" -> FALSE
    [] v.type = "null"      -> FALSE
    [] v.type = "boolean"   -> v.bool
    [] v.type = "string"    -> v.str # ""
    [] v.type = "object"    -> TRUE

\* a ?? b
Nullish(a, b) == IF a.type \in {"undefined", "null"} THEN b ELSE a

\* input?.name
Field(input, name) ==
  IF input.type = "object" /\ name \in DOMAIN input.fields
    THEN input.fields[name]
    ELSE JsUndefined

\* Math.min and Math.max of two numbers: NaN if either is NaN
MathMin(a, b) ==
  IF IsNaN(a) \/ IsNaN(b) THEN NaN ELSE JsNumber(IF a.num < b.num THEN a.num ELSE b.num)

MathMax(a, b) ==
  IF IsNaN(a) \/ IsNaN(b) THEN NaN ELSE JsNumber(IF a.num > b.num THEN a.num ELSE b.num)

defaultSettings ==
  [quality |-> "ultra", smoothing |-> JsNumber(58), gain |-> JsNumber(180),
   clickThrough |-> FALSE]

\* a settings object as a JavaScript value
AsJs(value) ==
  JsObject([quality      |-> JsString(value.quality),
            smoothing    |-> value.smoothing,
            gain         |-> value.gain,
            clickThrough |-> JsBoolean(value.clickThrough)])

-----------------------------------------------------------------------------
(* Pure helpers *)

Min(a, b) == IF a < b THEN a ELSE b

Max(a, b) == IF a > b THEN a ELSE b

Zeros(n) == [i \in 1..n |-> 0]

\* QUALITY_ORDER.indexOf(tier), 0-based, -1 when absent
IndexOfTier(tier) ==
  IF \E i \in 1..Len(QUALITY_ORDER) : QUALITY_ORDER[i] = tier
    THEN (CHOOSE i \in 1..Len(QUALITY_ORDER) : QUALITY_ORDER[i] = tier) - 1
    ELSE -1

qualityProfile(tier) == QUALITY_PROFILE[tier]

clamp(value, lo, hi) == MathMax(lo, MathMin(hi, value))

normalizeQuality(value) ==
  IF value.type = "string" /\ value.str \in QUALITY_SET
    THEN value.str
    ELSE defaultSettings.quality

\* input is any JavaScript value; smoothing and gain are hundredths
normalizeSettings(input) ==
  [quality      |-> normalizeQuality(Field(input, "quality")),
   smoothing    |-> clamp(Number(Nullish(Field(input, "smoothing"),
                                         defaultSettings.smoothing)),
                          JsNumber(0), JsNumber(95)),
   gain         |-> clamp(Number(Nullish(Field(input, "gain"), defaultSettings.gain)),
                          JsNumber(20), JsNumber(600)),
   clickThrough |-> Boolean(Nullish(Field(input, "clickThrough"),
                                    JsBoolean(defaultSettings.clickThrough)))]

\* JSON.stringify of a settings object: a number that is not finite is
\* written as null
JsonStringify(value) ==
  [text |-> "json",
   value |-> JsObject([quality      |-> JsString(value.quality),
                       smoothing    |-> IF IsNaN(value.smoothing) THEN JsNull
                                        ELSE value.smoothing,
                       gain         |-> IF IsNaN(value.gain) THEN JsNull ELSE value.gain,
                       clickThrough |-> JsBoolean(value.clickThrough)])]

\* JSON.parse: None when it throws, Some(value) otherwise
JsonParse(raw) == IF raw.text = "json" THEN Some(raw.value) ELSE None

\* the element of a set of one element; {e(x) : x \in {v}} inside it names
\* the value v once, the way a const of the code does
Only(S) == CHOOSE v \in S : TRUE

\* sorted[index] of the ascending sort of values (0-based index)
SortedAt(values, index) ==
  CHOOSE v \in {values[i] : i \in 1..Len(values)} :
    /\ Cardinality({i \in 1..Len(values) : values[i] < v}) <= index
    /\ Cardinality({i \in 1..Len(values) : values[i] <= v}) > index

\* values.sort((left, right) => left - right), ascending
SortAscending(values) ==
  Only({[i \in 1..Len(array) |-> SortedAt(array, i - 1)] : array \in {values}})

(* Arrays are objects: a function that takes or returns one takes or returns
   a reference, here a position in the sequence of all arrays allocated so
   far. A function that allocates returns the longer sequence, and the
   array it has made is the last one. *)

\* a spread that copies nothing, leaving the caller's array to be sorted
SpreadAliased(arrays, ref) == arrays

\* [...values]: a new array with the elements of arrays[ref]
Spread(arrays, ref) == Append(arrays, arrays[ref])

\* arrays[ref].sort(...) sorts in place
SortInPlace(arrays, ref) == [arrays EXCEPT ![ref] = SortAscending(arrays[ref])]

\* percentile(values, ratio) on the array arrays[values]; ratio is in
\* hundredths (0.95 = 95)
percentileOf(arrays, values, ratio) ==
  IF Len(arrays[values]) = 0 THEN [arrays |-> arrays, result |-> 0]
  ELSE Only({LET sorted == after[Len(after)]
                 index  == Max(0, Min(Len(sorted) - 1,
                                      ((Len(sorted) * ratio + 99) \div 100) - 1))
             IN [arrays |-> after, result |-> sorted[index + 1]] :
             after \in {Only({SortInPlace(copied, Len(copied)) :
                                copied \in {Spread(arrays, values)}})}})

percentile(values, ratio) == percentileOf(<<values>>, 1, ratio).result

-----------------------------------------------------------------------------
(* Double-precision arithmetic, as far as downsampleBins needs it: a number
   is a sequence of bits, most significant first, times a power of two. *)

\* bits of the significand of a double
SIGNIFICAND_BITS == 53

\* the largest e with d * 2^e <= n, for n >= d >= 1
RECURSIVE Log2Floor(_, _)
Log2Floor(n, d) == IF 2 * d > n THEN 0 ELSE 1 + Log2Floor(n, 2 * d)

Pow2(e) == 2 ^ e

\* the arithmetic works on pieces of 18 bits
LimbBase == Pow2(18)

\* the low width bits of v, most significant first
BitsOf(v, width) ==
  Only({[j \in 1..width |-> (n \div Pow2(width - j)) % 2] : n \in {v}})

\* the bits of v without leading zeros; none for 0
ToBits(v) ==
  Only({IF n = 0 THEN <<>>
        ELSE BitsOf(n, CHOOSE k \in 1..30 : n \div Pow2(k - 1) = 1) : n \in {v}})

\* the number written by the first count bits
RECURSIVE FromBitsUpTo(_, _)
FromBitsUpTo(bits, count) ==
  IF count = 0 THEN 0
  ELSE 2 * FromBitsUpTo(bits, count - 1) + bits[count]

FromBits(bits) == Only({FromBitsUpTo(b, Len(b)) : b \in {bits}})

\* bits plus one; one bit longer when every bit was 1
AddOne(bits) ==
  Only({IF \A j \in 1..Len(b) : b[j] = 1
          THEN <<1>> \o [j \in 1..Len(b) |-> 0]
          ELSE Only({[j \in 1..Len(b) |-> IF j < z THEN b[j]
                                            ELSE IF j = z THEN 1 ELSE 0] :
                     z \in {CHOOSE j \in 1..Len(b) :
                              b[j] = 0 /\ \A k \in (j + 1)..Len(b) : b[k] = 1}}) :
        b \in {bits}})

\* round to nearest, ties to even, to SIGNIFICAND_BITS bits
RoundToDouble(bits, exp) ==
  Only({IF Len(b) <= SIGNIFICAND_BITS THEN [bits |-> b, exp |-> exp]
        ELSE LET dropped == Len(b) - SIGNIFICAND_BITS
                 sticky  == \E j \in (SIGNIFICAND_BITS + 2)..Len(b) : b[j] = 1
                 up      == /\ b[SIGNIFICAND_BITS + 1] = 1
                            /\ (sticky \/ b[SIGNIFICAND_BITS] = 1)
             IN Only({IF Len(kept) > SIGNIFICAND_BITS
                        THEN [bits |-> SubSeq(kept, 1, SIGNIFICAND_BITS),
                              exp |-> exp + dropped + 1]
                        ELSE [bits |-> kept, exp |-> exp + dropped] :
                      kept \in {IF up THEN AddOne(SubSeq(b, 1, SIGNIFICAND_BITS))
                                ELSE SubSeq(b, 1, SIGNIFICAND_BITS)}}) :
        b \in {bits}})

\* the double n / d, for integers n >= d >= 1: the leading bit, three pieces
\* of the expansion, and a last bit that tells whether anything is left
DoubleDiv(n, d) ==
  Only({LET dd == d * Pow2(e)
            r0 == n - dd
            q1 == (r0 * LimbBase) \div dd
            r1 == (r0 * LimbBase) % dd
            q2 == (r1 * LimbBase) \div dd
            r2 == (r1 * LimbBase) % dd
            q3 == (r2 * LimbBase) \div dd
            r3 == (r2 * LimbBase) % dd
        IN RoundToDouble(<<1>> \o BitsOf(q1, 18) \o BitsOf(q2, 18) \o BitsOf(q3, 18)
                           \o <<IF r3 # 0 THEN 1 ELSE 0>>,
                         e - 55) :
        e \in {Log2Floor(n, d)}})

\* the double factor * x, for an integer factor >= 1 and x of
\* SIGNIFICAND_BITS bits
DoubleMul(factor, x) ==
  Only({LET hi  == FromBits(SubSeq(y.bits, 1, 17))
            mid == FromBits(SubSeq(y.bits, 18, 35))
            lo  == FromBits(SubSeq(y.bits, 36, 53))
            pl  == lo * factor
            pm  == mid * factor + pl \div LimbBase
            ph  == hi * factor + pm \div LimbBase
        IN RoundToDouble(ToBits(ph) \o BitsOf(pm % LimbBase, 18)
                           \o BitsOf(pl % LimbBase, 18),
                         y.exp) :
        y \in {x}})

\* Math.floor(x), for a double x >= 1 below 2^31
DoubleFloor(x) ==
  Only({IF y.exp >= 0 THEN FromBits(y.bits) * Pow2(y.exp)
        ELSE IF Len(y.bits) + y.exp <= 0 THEN 0
        ELSE FromBits(SubSeq(y.bits, 1, Len(y.bits) + y.exp)) :
        y \in {x}})

\* Math.floor(index * bucket) for the double bucket
BucketFloor(index, bucket) ==
  IF index = 0 THEN 0 ELSE DoubleFloor(DoubleMul(index, bucket))

RECURSIVE SumOf(_, _, _)
SumOf(source, from, to) ==
  IF from >= to THEN 0
  ELSE (IF from + 1 <= Len(source) THEN source[from + 1] ELSE 0)
         + SumOf(source, from + 1, to)

\* a bucket reduced to its average
MeanOf(source, from, to) ==
  IF from >= to THEN 0 ELSE SumOf(source, from, to) \div (to - from)

\* the running maximum of the inner loop, which starts at 0
RECURSIVE PeakOf(_, _, _)
PeakOf(source, from, to) ==
  IF from >= to THEN 0
  ELSE Max(IF from + 1 <= Len(source) THEN source[from + 1] ELSE 0,
           PeakOf(source, from + 1, to))

\* Math.floor(index * bucket) for index 0..targetCount, with
\* bucket = len / targetCount
BucketFloors(len, targetCount) ==
  Only({[index \in 0..targetCount |-> BucketFloor(index, bucket)] :
        bucket \in {DoubleDiv(len, targetCount)}})

\* the bounds between BUFFER_BINS and each tier's bin count, worked out once
DisplayBucketFloors ==
  [tier \in QUALITY_SET |->
     BucketFloors(BUFFER_BINS, qualityProfile(tier).binCount)]

BucketBounds(len, targetCount) ==
  IF len = BUFFER_BINS /\ \E tier \in QUALITY_SET : qualityProfile(tier).binCount = targetCount
    THEN DisplayBucketFloors[CHOOSE tier \in QUALITY_SET :
                               qualityProfile(tier).binCount = targetCount]
    ELSE BucketFloors(len, targetCount)

\* a slice that hands back the array it was asked to copy
ArraySliceAliased(arrays, ref, from, to) == arrays

\* arrays[ref].slice(from, to): a new array
ArraySlice(arrays, ref, from, to) ==
  Append(arrays, SubSeq(arrays[ref], from + 1, Min(to, Len(arrays[ref]))))

\* downsampleBins(source, targetCount) on the array arrays[source]; bucket
\* bounds are Math.floor(index * bucket), 0-based, with the double
\* bucket = source.length / targetCount
downsampleBinsOf(arrays, source, targetCount) ==
  IF targetCount >= Len(arrays[source])
    THEN ArraySlice(arrays, source, 0, Len(arrays[source]))
    ELSE Only({Append(arrays,
                      [k \in 1..targetCount |->
                         LET start == floors[k - 1]
                             end   == Max(start + 1, floors[k])
                         IN PeakOf(bins, start, end)]) :
               bins \in {arrays[source]},
               floors \in {BucketBounds(Len(arrays[source]), targetCount)}})

downsampleBins(source, targetCount) ==
  LET arrays == downsampleBinsOf(<<source>>, 1, targetCount)
  IN arrays[Len(arrays)]

\* the eased buffer handed on at its own length
buildDisplayBinsUnsampled(source, tier) == source

buildDisplayBins(source, tier) ==
  LET expected == qualityProfile(tier).binCount
  IN IF expected = Len(source) THEN SubSeq(source, 1, expected)
     ELSE downsampleBins(source, expected)

\* bins.value.slice(0, expected) padded with zeros
ResizeBins(old, expected) ==
  [i \in 1..expected |-> IF i <= Len(old) THEN old[i] ELSE 0]

-----------------------------------------------------------------------------
(* State *)

VARIABLES
  settings,               \* settings.value
  editingSettings,        \* editingSettings.value
  visualStyle,            \* visualStyle.value
  editingVisualStyle,     \* editingVisualStyle.value
  settingsOpen,
  settingsSaving,
  settingsError,          \* "" or the error text
  bins,                   \* bins.value
  spectrumFrameBins,      \* the shared frame store
  renderBinsBuffer,
  targetBinsBuffer,
  frameTimeSamples,
  animationFrameHandle,   \* NULL, "scheduled", or "fired" once its callback has run
  frameQueue,             \* the animation-frame callbacks the browser holds, per loop
  spectrumCanvas,         \* the SpectrumCanvas instance: mounted, its rafHandle
  lastRenderTs,
  lastAnalysisTs,
  lastPerfEvalTs,
  downgradeBreachStartTs,
  autoDowngradePending,
  autoQualityMessage,     \* None or Some([from, to, saveFailed])
  qualityMessageTimer,    \* NULL or "armed"
  perfFps,
  perfFrameTimeMs,
  perfFrameP95Ms,
  barsCanvasRef,          \* NULL or "canvas"
  barsRenderMode,
  barsWebglRenderer,      \* NULL or "held" (one program and one vertex buffer)
  bars2dContext,          \* NULL or "held"
  now,                    \* the clock, performance.now()
  localStorage,           \* None or Some(the settings stored under SETTINGS_KEY)
  backendSettings,        \* what the native side's load_settings returns
  canvasContextMode,      \* context mode of the current bars canvas
  liveGl,                 \* GPU objects created and not deleted
  autoTask,               \* the suspended autoDowngradeQuality call
  applyTask,              \* the suspended applySettings call
  mountPc,                \* position of the onMounted callback
  listening,              \* the four backend listeners are registered
  initRafPending,         \* the rAF callback of watch(visualStyle) is queued
  unmounted,
  used,                   \* how much of each bounded input has been used
  breachSince,            \* history: first of the current run of breaching evaluations
  backendSettled,         \* history: initBarsRenderer has run since the last dispose
  cooldown,               \* history: when the last automatic downgrade was made and
                          \* to which tier, the tier the breach timer was started at,
                          \* and whether the last downgrade and the last Apply failed
  call,                   \* a function called on its own: its arguments, its result
  obs                     \* history: what the last step did

vars ==
  <<settings, editingSettings, visualStyle, editingVisualStyle, settingsOpen,
    settingsSaving, settingsError, bins, spectrumFrameBins, renderBinsBuffer,
    targetBinsBuffer, frameTimeSamples, animationFrameHandle, frameQueue,
    spectrumCanvas, lastRenderTs,
    lastAnalysisTs, lastPerfEvalTs, downgradeBreachStartTs, autoDowngradePending,
    autoQualityMessage, qualityMessageTimer, perfFps, perfFrameTimeMs,
    perfFrameP95Ms, barsCanvasRef, barsRenderMode, barsWebglRenderer,
    bars2dContext, now, localStorage, backendSettings, canvasContextMode, liveGl,
    autoTask, applyTask, mountPc, listening, initRafPending, unmounted, used,
    breachSince, backendSettled, cooldown, call, obs>>

\* the current state as one record, so that a handler is a function of it
Cur ==
  [settings |-> settings, editingSettings |-> editingSettings,
   visualStyle |-> visualStyle, editingVisualStyle |-> editingVisualStyle,
   settingsOpen |-> settingsOpen, settingsSaving |-> settingsSaving,
   settingsError |-> settingsError, bins |-> bins,
   spectrumFrameBins |-> spectrumFrameBins, renderBinsBuffer |-> renderBinsBuffer,
   targetBinsBuffer |-> targetBinsBuffer, frameTimeSamples |-> frameTimeSamples,
   animationFrameHandle |-> animationFrameHandle, frameQueue |-> frameQueue,
   spectrumCanvas |-> spectrumCanvas, lastRenderTs |-> lastRenderTs,
   lastAnalysisTs |-> lastAnalysisTs, lastPerfEvalTs |-> lastPerfEvalTs,
   downgradeBreachStartTs |-> downgradeBreachStartTs,
   autoDowngradePending |-> autoDowngradePending,
   autoQualityMessage |-> autoQualityMessage,
   qualityMessageTimer |-> qualityMessageTimer, perfFps |-> perfFps,
   perfFrameTimeMs |-> perfFrameTimeMs, perfFrameP95Ms |-> perfFrameP95Ms,
   barsCanvasRef |-> barsCanvasRef, barsRenderMode |-> barsRenderMode,
   barsWebglRenderer |-> barsWebglRenderer, bars2dContext |-> bars2dContext,
   now |-> now, localStorage |-> localStorage, backendSettings |-> backendSettings,
   canvasContextMode |-> canvasContextMode, liveGl |-> liveGl,
   autoTask |-> autoTask, applyTask |-> applyTask, mountPc |-> mountPc,
   listening |-> listening, initRafPending |-> initRafPending,
   unmounted |-> unmounted, used |-> used, breachSince |-> breachSince,
   backendSettled |-> backendSettled, cooldown |-> cooldown, call |-> call,
   obs |-> obs]

\* the next state is the record s
Commit(s) ==
  /\ settings' = s.settings
  /\ editingSettings' = s.editingSettings
  /\ visualStyle' = s.visualStyle
  /\ editingVisualStyle' = s.editingVisualStyle
  /\ settingsOpen' = s.settingsOpen
  /\ settingsSaving' = s.settingsSaving
  /\ settingsError' = s.settingsError
  /\ bins' = s.bins
  /\ spectrumFrameBins' = s.spectrumFrameBins
  /\ renderBinsBuffer' = s.renderBinsBuffer
  /\ targetBinsBuffer' = s.targetBinsBuffer
  /\ frameTimeSamples' = s.frameTimeSamples
  /\ animationFrameHandle' = s.animationFrameHandle
  /\ frameQueue' = s.frameQueue
  /\ spectrumCanvas' = s.spectrumCanvas
  /\ lastRenderTs' = s.lastRenderTs
  /\ lastAnalysisTs' = s.lastAnalysisTs
  /\ lastPerfEvalTs' = s.lastPerfEvalTs
  /\ downgradeBreachStartTs' = s.downgradeBreachStartTs
  /\ autoDowngradePending' = s.autoDowngradePending
  /\ autoQualityMessage' = s.autoQualityMessage
  /\ qualityMessageTimer' = s.qualityMessageTimer
  /\ perfFps' = s.perfFps
  /\ perfFrameTimeMs' = s.perfFrameTimeMs
  /\ perfFrameP95Ms' = s.perfFrameP95Ms
  /\ barsCanvasRef' = s.barsCanvasRef
  /\ barsRenderMode' = s.barsRenderMode
  /\ barsWebglRenderer' = s.barsWebglRenderer
  /\ bars2dContext' = s.bars2dContext
  /\ now' = s.now
  /\ localStorage' = s.localStorage
  /\ backendSettings' = s.backendSettings
  /\ canvasContextMode' = s.canvasContextMode
  /\ liveGl' = s.liveGl
  /\ autoTask' = s.autoTask
  /\ applyTask' = s.applyTask
  /\ mountPc' = s.mountPc
  /\ listening' = s.listening
  /\ initRafPending' = s.initRafPending
  /\ unmounted' = s.unmounted
  /\ used' = s.used
  /\ breachSince' = s.breachSince
  /\ backendSettled' = s.backendSettled
  /\ cooldown' = s.cooldown
  /\ call' = s.call
  /\ obs' = s.obs

\* the observation record of a step that has not done anything yet
NoObs(op) ==
  [evaluated |-> FALSE, breach |-> FALSE, held |-> 0,
   downgradeCalls |-> 0, downgraded |-> FALSE, fromTier |-> NULL, toTier |-> NULL,
   inits |-> 0, webglProbes |-> 0, canvas2dAttempts |-> 0, probeFailed |-> FALSE,
   created |-> 0, staleTicks |-> 0, freshTicks |-> 0,
   ticks |-> 0, drawCalls |-> 0, drawFailed |-> FALSE,
   frames |-> <<>>, reads |-> <<>>, downgrades |-> <<>>,
   autoSaveFailed |-> FALSE, applyFailed |-> FALSE, applied |-> FALSE,
   evicted |-> 0, blend |-> [num |-> 0, den |-> 1]]

Begin(op) == [Cur EXCEPT !.obs = NoObs(op)]

IdleTask == [pc |-> "idle"]

-----------------------------------------------------------------------------
(* Display bins, local storage, notice *)

\* the display bins left at the length they have
syncDisplayBinLengthSkipped(s, tier) == s

syncDisplayBinLength(s, tier) ==
  LET expected == qualityProfile(tier).binCount
      next == ResizeBins(s.bins, expected)
  IN IF Len(s.bins) = expected THEN s
     ELSE [s EXCEPT !.bins = next, !.spectrumFrameBins = next]

saveLocalSettings(s, value) == [s EXCEPT !.localStorage = Some(JsonStringify(value))]

\* None, or Some(settings)
loadLocalSettings(s) ==
  IF s.localStorage = None \/ s.localStorage[1].text = "empty" THEN None
  ELSE LET parsed == JsonParse(s.localStorage[1])
       IN IF parsed = None THEN None ELSE Some(normalizeSettings(parsed[1]))

showAutoQualityMessage(s, fromTier, toTier, saveFailed) ==
  [s EXCEPT !.autoQualityMessage =
              Some([from |-> fromTier, to |-> toTier, saveFailed |-> saveFailed]),
            !.qualityMessageTimer = "armed"]

-----------------------------------------------------------------------------
(* Bars renderer backend selection *)

\* Outcomes of the platform calls of one probe and of the draw calls that
\* follow it.  vertexShader and fragmentShader: "ok", "null" (createShader
\* gave null) or "compile"; program: "ok", "null" (createProgram gave null)
\* or "link"; draw: "drawn", or "failed" (the context is lost or raises an
\* error, which the calls report by doing nothing).
ProbeOk ==
  [webgl |-> TRUE, vertexShader |-> "ok", fragmentShader |-> "ok", program |-> "ok",
   vertexBuffer |-> TRUE, locations |-> TRUE, context2d |-> TRUE, draw |-> "drawn"]

DrawOutcomes == {"drawn", "failed"}

ProbeOutcomes ==
  LET webglSide ==
        { ProbeOk,
          [ProbeOk EXCEPT !.webgl = FALSE],
          [ProbeOk EXCEPT !.vertexShader = "null"],
          [ProbeOk EXCEPT !.vertexShader = "compile"],
          [ProbeOk EXCEPT !.fragmentShader = "compile"],
          [ProbeOk EXCEPT !.program = "null"],
          [ProbeOk EXCEPT !.program = "link"],
          [ProbeOk EXCEPT !.vertexBuffer = FALSE],
          [ProbeOk EXCEPT !.fragmentShader = "compile", !.vertexBuffer = FALSE],
          [ProbeOk EXCEPT !.locations = FALSE] }
  IN webglSide \cup { [p EXCEPT !.context2d = FALSE] : p \in webglSide }

\* GPU objects that no renderer held by the app owns
Leaked(s) ==
  s.liveGl.shaders + s.liveGl.programs + s.liveGl.buffers
    - (IF s.barsWebglRenderer # NULL THEN 2 ELSE 0)

\* a dispose that releases the WebGL2 renderer and leaves the rest as it is
disposeWebglOnly(s) ==
  IF s.barsWebglRenderer # NULL
    THEN [s EXCEPT !.liveGl.buffers = @ - 1, !.liveGl.programs = @ - 1,
                   !.barsWebglRenderer = NULL, !.backendSettled = FALSE]
    ELSE [s EXCEPT !.backendSettled = FALSE]

disposeBarsRenderer(s) ==
  LET s1 == IF s.barsWebglRenderer # NULL
              THEN [s EXCEPT !.liveGl.buffers = @ - 1, !.liveGl.programs = @ - 1,
                             !.barsWebglRenderer = NULL]
              ELSE s
  IN [s1 EXCEPT !.bars2dContext = NULL, !.barsRenderMode = "dom",
                !.backendSettled = FALSE]

\* [s, shader]: shader is TRUE when a compiled shader is returned
createWebglShader(s, outcome) ==
  IF outcome = "null" THEN [s |-> s, shader |-> FALSE]
  ELSE IF outcome = "compile"
    THEN [s |-> [s EXCEPT !.obs.created = @ + 1], shader |-> FALSE]
    ELSE [s |-> [s EXCEPT !.liveGl.shaders = @ + 1, !.obs.created = @ + 1],
          shader |-> TRUE]

\* [s, program]: program is TRUE when a linked program is returned
createWebglProgram(s, probe) ==
  LET v == createWebglShader(s, probe.vertexShader)
      f == createWebglShader(v.s, probe.fragmentShader)
      both == (IF v.shader THEN 1 ELSE 0) + (IF f.shader THEN 1 ELSE 0)
  IN IF ~v.shader \/ ~f.shader
       THEN [s |-> [f.s EXCEPT !.liveGl.shaders = @ - both], program |-> FALSE]
     ELSE IF probe.program = "null"
       THEN [s |-> [f.s EXCEPT !.liveGl.shaders = @ - 2], program |-> FALSE]
     ELSE IF probe.program = "link"
       THEN [s |-> [f.s EXCEPT !.liveGl.shaders = @ - 2, !.obs.created = @ + 1],
             program |-> FALSE]
     ELSE [s |-> [f.s EXCEPT !.liveGl.shaders = @ - 2, !.liveGl.programs = @ + 1,
                             !.obs.created = @ + 1],
           program |-> TRUE]

\* canvas.getContext("webgl2"): a canvas keeps the context mode it first got
GetContextWebgl2(s, probe) ==
  \/ s.canvasContextMode = "webgl2"
  \/ s.canvasContextMode = "none" /\ probe.webgl

\* canvas.getContext("2d")
GetContext2d(s, probe) ==
  \/ s.canvasContextMode = "2d"
  \/ s.canvasContextMode = "none" /\ probe.context2d

\* what initBarsRenderer does with the buffer and the program when the
\* construction stops before the renderer is stored
ReleaseFailedProbe(s, program, vertexBuffer, locations) ==
  IF program /\ vertexBuffer
    THEN [s EXCEPT !.liveGl.buffers = @ - 1, !.liveGl.programs = @ - 1]
    ELSE s

\* the Canvas2D attempt and the DOM path at the end of initBarsRenderer
FallbackToCanvas2d(s, probe) ==
  LET s1 == [s EXCEPT !.obs.canvas2dAttempts = @ + 1]
  IN IF GetContext2d(s1, probe)
       THEN [s1 EXCEPT !.bars2dContext = "held", !.barsRenderMode = "canvas2d",
                       !.canvasContextMode = "2d", !.backendSettled = TRUE]
       ELSE [s1 EXCEPT !.barsRenderMode = "dom", !.backendSettled = TRUE]

initBarsRenderer(s, canvas, probe) ==
  LET s0 == disposeBarsRenderer(s)
      s1 == [s0 EXCEPT !.obs.inits = @ + 1, !.obs.webglProbes = @ + 1]
  IN IF canvas = NULL THEN s0
     ELSE IF ~GetContextWebgl2(s1, probe)
       THEN FallbackToCanvas2d([s1 EXCEPT !.obs.probeFailed = TRUE], probe)
     ELSE
       LET p  == createWebglProgram([s1 EXCEPT !.canvasContextMode = "webgl2"], probe)
           s2 == IF probe.vertexBuffer
                   THEN [p.s EXCEPT !.liveGl.buffers = @ + 1, !.obs.created = @ + 1]
                   ELSE p.s
       IN IF p.program /\ probe.vertexBuffer /\ probe.locations
            THEN [s2 EXCEPT !.barsWebglRenderer = "held", !.barsRenderMode = "webgl2",
                            !.backendSettled = TRUE]
            ELSE FallbackToCanvas2d(
                   [ReleaseFailedProbe(s2, p.program, probe.vertexBuffer, probe.locations)
                      EXCEPT !.obs.probeFailed = TRUE],
                   probe)

\* the calls on the WebGL2 context return whether they take effect or not
drawBarsWithWebgl(s, nextBins, probe) ==
  IF s.barsWebglRenderer = NULL \/ s.barsCanvasRef = NULL THEN s
  ELSE [s EXCEPT !.obs.drawCalls = @ + 1,
                 !.obs.drawFailed = @ \/ probe.draw # "drawn"]

\* the calls on the 2D context return whether they take effect or not
drawBarsWithCanvas2d(s, nextBins, probe) ==
  IF s.bars2dContext = NULL \/ s.barsCanvasRef = NULL THEN s
  ELSE [s EXCEPT !.obs.drawCalls = @ + 1,
                 !.obs.drawFailed = @ \/ probe.draw # "drawn"]

drawBarsFrame(s, nextBins, probe) ==
  IF s.visualStyle # "bars" THEN s
  ELSE IF s.barsCanvasRef = NULL THEN s
  ELSE LET s1 == IF s.barsWebglRenderer = NULL /\ s.bars2dContext = NULL
                   THEN initBarsRenderer(s, s.barsCanvasRef, probe)
                   ELSE s
       IN IF s1.barsWebglRenderer # NULL THEN drawBarsWithWebgl(s1, nextBins, probe)
          ELSE IF s1.bars2dContext # NULL THEN drawBarsWithCanvas2d(s1, nextBins, probe)
          ELSE s1

-----------------------------------------------------------------------------
(* Frame-time window and the automatic downgrade *)

\* a window from which nothing is ever shifted out
DropExpiredNever(samples, t) == samples

\* shift() while the first sample is older than the window
DropExpired(samples, t) ==
  LET Expired(i) == t - samples[i].ts > PERF_WINDOW_MS
      n == Len(samples)
      first == CHOOSE i \in 1..(n + 1) :
                 /\ i = n + 1 \/ ~Expired(i)
                 /\ \A j \in 1..(i - 1) : Expired(j)
  IN SubSeq(samples, first, n)

pushFrameSample(s, t, duration) ==
  Only({[s EXCEPT !.frameTimeSamples = kept,
                  !.obs.evicted = @ + Len(s.frameTimeSamples) + 1 - Len(kept)] :
        kept \in {DropExpired(Append(s.frameTimeSamples,
                                     [ts |-> t, duration |-> duration]), t)}})

\* the samples counted from the newest one back to the first one before cutoff
CountRecent(samples, cutoff) ==
  LET n == Len(samples)
      last == CHOOSE j \in 0..n :
                /\ j = 0 \/ samples[j].ts < cutoff
                /\ \A k \in (j + 1)..n : samples[k].ts >= cutoff
  IN n - last

estimateFps(s, t) == CountRecent(s.frameTimeSamples, t - FPS_WINDOW_MS)

\* the re-entrancy guard never closed
DowngradeNeverInFlight(s) == FALSE

\* the re-entrancy guard of autoDowngradeQuality
DowngradeInFlight(s) == s.autoDowngradePending

\* a downgrade that goes straight to the lowest tier
LastTierIndex(currentIndex) == Len(QUALITY_ORDER) - 1

\* 0-based index of the tier an automatic downgrade moves to
NextTierIndex(currentIndex) == currentIndex + 1

\* the synchronous part of autoDowngradeQuality, up to the save_settings call
autoDowngradeQuality(s) ==
  LET called == [s EXCEPT !.obs.downgradeCalls = @ + 1]
      currentTier == s.settings.quality
      currentIndex == IndexOfTier(currentTier)
  IN IF DowngradeInFlight(s) THEN called
     ELSE IF currentIndex < 0 \/ currentIndex >= Len(QUALITY_ORDER) - 1 THEN called
     ELSE
       LET nextTier == QUALITY_ORDER[NextTierIndex(currentIndex) + 1]
           nextSettings == normalizeSettings(AsJs([s.settings EXCEPT !.quality = nextTier]))
           s1 == [called EXCEPT !.autoDowngradePending = TRUE,
                                !.settings = nextSettings,
                                !.editingSettings =
                                   IF ~s.settingsOpen THEN nextSettings ELSE @,
                                !.obs.downgraded = TRUE,
                                !.obs.fromTier = currentTier,
                                !.obs.toTier = nextTier,
                                !.obs.downgrades =
                                   Append(@, [at |-> s.now,
                                              timerStart |-> s.downgradeBreachStartTs,
                                              timerTier |-> s.cooldown.timerTier,
                                              from |-> currentTier, to |-> nextTier,
                                              lastTs |-> s.cooldown.lastTs,
                                              lastTo |-> s.cooldown.lastTo,
                                              lastFailed |-> s.cooldown.lastFailed]),
                                !.cooldown.lastTs = s.now,
                                !.cooldown.lastTo = nextTier,
                                !.cooldown.lastFailed = FALSE]
           s2 == saveLocalSettings(s1, nextSettings)
           s3 == showAutoQualityMessage(syncDisplayBinLength(s2, nextTier),
                                        currentTier, nextTier, FALSE)
       IN [s3 EXCEPT !.autoTask =
             [pc |-> "save", next |-> nextSettings, sync |-> ~s.settingsOpen,
              from |-> currentTier, to |-> nextTier]]

OverBudget(p95, budget) == p95 > budget

\* no hold at all
HoldElapsedAtOnce(t, breachStart) == TRUE

\* the hold compared with > instead of >=
HoldElapsedStrict(t, breachStart) == t - breachStart > AUTO_DOWNGRADE_HOLD_MS

HoldElapsed(t, breachStart) == t - breachStart >= AUTO_DOWNGRADE_HOLD_MS

\* the breach timer left running by an evaluation within budget
TimerKeptAfterUnderBudget(breachStart) == breachStart

\* the breach timer after an evaluation that found the p95 within budget
TimerAfterUnderBudget(breachStart) == 0

evaluatePerformance(s, t) ==
  IF Len(s.frameTimeSamples) = 0 THEN s
  ELSE
    Only({LET budget == qualityProfile(s.settings.quality).frameBudgetMs
              breach == OverBudget(p95, budget)
              s1 == [s EXCEPT !.perfFps = estimateFps(s, t),
                              !.perfFrameP95Ms = p95,
                              !.obs.evaluated = TRUE,
                              !.obs.breach = breach,
                              !.obs.held = IF s.downgradeBreachStartTs = 0 THEN 0
                                           ELSE t - s.downgradeBreachStartTs,
                              !.breachSince = IF ~breach THEN 0
                                              ELSE IF @ = 0 THEN t ELSE @]
          IN IF breach
               THEN IF s.downgradeBreachStartTs = 0
                      THEN [s1 EXCEPT !.downgradeBreachStartTs = t,
                                      !.cooldown.timerTier = s.settings.quality]
                    ELSE IF HoldElapsed(t, s.downgradeBreachStartTs)
                      THEN autoDowngradeQuality(s1)
                      ELSE s1
               ELSE [s1 EXCEPT !.downgradeBreachStartTs =
                                 TimerAfterUnderBudget(s.downgradeBreachStartTs)] :
          p95 \in {percentile([i \in 1..Len(s.frameTimeSamples) |->
                                 s.frameTimeSamples[i].duration], 95)}})

-----------------------------------------------------------------------------
(* The render tick *)

\* the elapsed time taken as it comes
FrameDeltaUnclamped(gap) == IF gap = 0 THEN 1667 ELSE gap * 100

\* Math.max(0.5, Math.min(50, now - lastRenderTs || 16.67)), in hundredths
FrameDelta(gap) == Max(50, Min(5000, IF gap = 0 THEN 1667 ELSE gap * 100))

IsStale(t, lastAnalysis) == t - lastAnalysis > STALE_AFTER_MS

\* one entry of renderBinsBuffer after a tick; the blend is
\* min(1, deltaMs / interpolationMs)
Blend(deltaMs, profile) ==
  [num |-> Min(deltaMs, profile.interpolationMs * 100),
   den |-> profile.interpolationMs * 100]

EaseBin(current, target, deltaMs, profile, stale) ==
  LET blend == Blend(deltaMs, profile)
      eased == current + ((target - current) * blend.num) \div blend.den
  IN IF stale THEN Max(0, (eased * profile.staleDecay) \div 1000) ELSE eased

\* a frame that asks for no further frame
ScheduleNextFrameDropped(s) == s

\* animationFrameHandle = requestAnimationFrame(renderFrame)
ScheduleNextFrame(s) ==
  [s EXCEPT !.animationFrameHandle = "scheduled", !.frameQueue.app = @ + 1]

\* the callback runs: the handle it was scheduled under names no pending
\* callback any more
renderFrame(s, t, probe) ==
  LET deltaMs == FrameDelta(t - s.lastRenderTs)
      s1 == pushFrameSample([s EXCEPT !.lastRenderTs = t, !.perfFrameTimeMs = deltaMs,
                                      !.now = t, !.animationFrameHandle = "fired",
                                      !.frameQueue.app = @ - 1,
                                      !.obs.ticks = @ + 1,
                                      !.obs.blend =
                                         Blend(deltaMs, qualityProfile(s.settings.quality))],
                            t, deltaMs)
      profile == qualityProfile(s.settings.quality)
      stale == IsStale(t, s.lastAnalysisTs)
      eased == [i \in 1..Len(s.renderBinsBuffer) |->
                  EaseBin(s.renderBinsBuffer[i], s.targetBinsBuffer[i], deltaMs,
                          profile, stale)]
      displayBins == buildDisplayBins(eased, s.settings.quality)
      s2 == [s1 EXCEPT !.renderBinsBuffer = eased, !.bins = displayBins,
                       !.spectrumFrameBins = displayBins,
                       !.obs.staleTicks = IF stale THEN @ + 1 ELSE @,
                       !.obs.freshTicks = IF stale THEN @ ELSE @ + 1]
      s3 == drawBarsFrame(s2, displayBins, probe)
      s4 == IF t - s.lastPerfEvalTs >= PERF_EVAL_INTERVAL_MS
              THEN [evaluatePerformance(s3, t) EXCEPT !.lastPerfEvalTs = t]
              ELSE s3
  IN ScheduleNextFrame(s4)

-----------------------------------------------------------------------------
(* Watchers: run after the handler that changed what they watch *)

FlushWatchers(old, s) ==
  IF s.unmounted THEN s
  ELSE
    LET s1 == IF s.visualStyle = old.visualStyle THEN s
              ELSE IF s.visualStyle # "bars" THEN disposeBarsRenderer(s)
              ELSE [s EXCEPT !.initRafPending = TRUE]
    IN IF s1.settings.quality = old.settings.quality THEN s1
       ELSE [syncDisplayBinLength(s1, s1.settings.quality)
               EXCEPT !.downgradeBreachStartTs = 0, !.breachSince = 0]

-----------------------------------------------------------------------------
(* persistSettings and its two callers *)

\* the native side's save_settings command: the store keeps the value
save_settings(s, value) == [s EXCEPT !.backendSettings = value]

\* the native side's load_settings command: the value last saved
load_settings(s) == s.backendSettings

\* persistSettings after load_settings has answered with latestRaw
persistSettingsTail(s, latestRaw, syncEditing) ==
  LET latest == normalizeSettings(AsJs(latestRaw))
      s1 == [s EXCEPT !.settings = latest,
                      !.editingSettings = IF syncEditing THEN latest ELSE @]
  IN syncDisplayBinLength(saveLocalSettings(s1, latest), latest.quality)

\* a finally block that leaves the guard and the timer as they are
autoDowngradeFinallySkipped(s) == [s EXCEPT !.autoTask = IdleTask]

\* the finally block of autoDowngradeQuality
autoDowngradeFinally(s) ==
  [s EXCEPT !.autoDowngradePending = FALSE, !.downgradeBreachStartTs = 0,
            !.autoTask = IdleTask]

\* the catch block of autoDowngradeQuality, then its finally block
autoDowngradeCatch(s) ==
  autoDowngradeFinally(
    showAutoQualityMessage([s EXCEPT !.obs.autoSaveFailed = TRUE,
                                     !.cooldown.lastFailed = TRUE],
                           s.autoTask.from, s.autoTask.to, TRUE))

\* the synchronous part of applySettings, up to the save_settings call
applySettings(s) ==
  [s EXCEPT !.settingsSaving = TRUE, !.settingsError = "",
            !.cooldown.applyFailed = FALSE,
            !.applyTask = [pc |-> "save", next |-> normalizeSettings(AsJs(s.editingSettings))]]

\* applySettings after persistSettings has returned
applySettingsTail(s) ==
  [s EXCEPT !.visualStyle = s.editingVisualStyle, !.settingsOpen = FALSE,
            !.settingsSaving = FALSE, !.applyTask = IdleTask,
            !.obs.applied = TRUE]

\* the catch block of applySettings, then its finally block
applySettingsCatch(s) ==
  [s EXCEPT !.settingsError = "save failed", !.settingsSaving = FALSE,
            !.applyTask = IdleTask, !.obs.applyFailed = TRUE,
            !.cooldown.applyFailed = TRUE]

openSettings(s) ==
  [s EXCEPT !.editingSettings = s.settings, !.editingVisualStyle = s.visualStyle,
            !.settingsError = "", !.settingsOpen = TRUE]

\* a loop start that does not look at the handle
startRenderLoopAgain(s) ==
  [s EXCEPT !.lastRenderTs = s.now, !.lastPerfEvalTs = s.now,
            !.animationFrameHandle = "scheduled", !.frameQueue.app = @ + 1]

startRenderLoop(s) ==
  IF s.animationFrameHandle # NULL THEN s
  ELSE [s EXCEPT !.lastRenderTs = s.now, !.lastPerfEvalTs = s.now,
                 !.animationFrameHandle = "scheduled", !.frameQueue.app = @ + 1]

\* cancelAnimationFrame(handle): the callback the handle names leaves the
\* queue, if it is still there
cancelAnimationFrame(queued, handle) ==
  IF handle = "scheduled" /\ queued > 0 THEN queued - 1 ELSE queued

stopRenderLoop(s) ==
  IF s.animationFrameHandle = NULL THEN s
  ELSE [s EXCEPT !.frameQueue.app = cancelAnimationFrame(@, s.animationFrameHandle),
                 !.animationFrameHandle = NULL]

-----------------------------------------------------------------------------
(* The audio:analysis_frame listener *)

\* a payload: raw bins, rms and peak in thousandths
Payloads ==
  { [bins |-> [i \in 1..64 |-> 1023], rms |-> 0, peak |-> 0],
    [bins |-> [i \in 1..70 |-> IF i = 70 THEN 2047 ELSE 0], rms |-> 1000, peak |-> 1000],
    [bins |-> <<2047, 0>>, rms |-> 100, peak |-> 0],
    [bins |-> [i \in 1..64 |-> 0], rms |-> 0, peak |-> 0] }

\* the gain in tenths
AdaptiveGain(rms) == IF rms < 60 THEN 26 ELSE IF rms < 160 THEN 20 ELSE 14

GlobalFloor(rms, peak) == Min(160, (rms * 55 + peak * 20) \div 100)

\* min(1, floorRemoved * adaptiveGain) in thousandths
Lifted(bin, gain) ==
  LET normalized == Min(1000, Max(0, (bin * 1000) \div RAW_FULL_SCALE))
      floorRemoved == (Max(0, normalized - 5) * 1000) \div 995
  IN Min(1000, (floorRemoved * gain) \div 10)

\* Math.pow(lifted, 0.62) where it is exact: the payloads above only lift to 0 or 1
Pow062(lifted) == IF lifted >= 1000 THEN 1000 ELSE 0

TargetBin(bin, rms, peak) ==
  Min(1000, (Pow062(Lifted(bin, AdaptiveGain(rms))) * 9) \div 10
            + GlobalFloor(rms, peak) \div 10)

\* bins past the 64th written over the first ones
NextBinsWrapped(payload) ==
  [i \in 1..BUFFER_BINS |->
     IF i + BUFFER_BINS <= Len(payload.bins)
       THEN TargetBin(payload.bins[i + BUFFER_BINS], payload.rms, payload.peak)
     ELSE IF i <= Len(payload.bins)
       THEN TargetBin(payload.bins[i], payload.rms, payload.peak)
     ELSE 0]

\* payload.bins.slice(0, 64).map(...), then padded with zeros to 64
NextBins(payload) ==
  [i \in 1..BUFFER_BINS |->
     IF i <= Len(payload.bins)
       THEN TargetBin(payload.bins[i], payload.rms, payload.peak)
       ELSE 0]

\* a loop that stops half way and leaves the rest of the frame before
OverwriteTargetPartly(target, nextBins) ==
  [i \in 1..BUFFER_BINS |-> IF 2 * i <= BUFFER_BINS THEN nextBins[i] ELSE target[i]]

\* for index 0..63: targetBinsBuffer[index] = nextBins[index]
OverwriteTarget(target, nextBins) == [i \in 1..BUFFER_BINS |-> nextBins[i]]

onAnalysisFrame(s, payload) ==
  [s EXCEPT !.targetBinsBuffer = OverwriteTarget(@, NextBins(payload)),
            !.lastAnalysisTs = s.now,
            !.obs.frames = Append(@, payload)]

\* SpectrumCanvas.drawFrame: the array the draw functions are handed
drawFrame(s) ==
  LET frameBins == IF Len(s.spectrumFrameBins) > 0 THEN s.spectrumFrameBins ELSE <<0>>
  IN [s EXCEPT !.obs.reads = Append(@, frameBins)]

\* SpectrumCanvas.startRenderLoop
canvasStartRenderLoop(s) ==
  IF s.spectrumCanvas.rafHandle # NULL THEN s
  ELSE [s EXCEPT !.spectrumCanvas.rafHandle = "scheduled",
                 !.frameQueue.canvas = @ + 1]

\* SpectrumCanvas.stopRenderLoop
canvasStopRenderLoop(s) ==
  IF s.spectrumCanvas.rafHandle = NULL THEN s
  ELSE [s EXCEPT !.frameQueue.canvas =
                    cancelAnimationFrame(@, s.spectrumCanvas.rafHandle),
                 !.spectrumCanvas.rafHandle = NULL]

\* SpectrumCanvas.render, the loop's callback: it leaves the queue, draws,
\* and asks for the next frame
canvasRender(s) ==
  [drawFrame(s) EXCEPT !.frameQueue.canvas = @ - 1 + 1,
                       !.spectrumCanvas.rafHandle = "scheduled"]

\* SpectrumCanvas.onMounted, of a new instance; hasContext is whether the
\* canvas and its 2d context are there
canvasOnMounted(s, hasContext) ==
  LET fresh == [s EXCEPT !.spectrumCanvas = [mounted |-> TRUE, rafHandle |-> NULL]]
  IN IF hasContext THEN canvasStartRenderLoop(fresh) ELSE fresh

\* SpectrumCanvas.onBeforeUnmount
canvasOnBeforeUnmount(s) ==
  [canvasStopRenderLoop(s) EXCEPT !.spectrumCanvas.mounted = FALSE]

-----------------------------------------------------------------------------
(* Initial state: the component's setup has run, onMounted has not *)

\* no function is called on its own
NoCall == [fn |-> "none"]

InitialStored == {None, Some(JsonStringify([defaultSettings EXCEPT !.quality = "high"]))}

\* the component's state when what is stored under SETTINGS_KEY is one of stored
InitComponent(stored) ==
  /\ localStorage \in stored
  /\ backendSettings = defaultSettings
  /\ settings = (IF loadLocalSettings([localStorage |-> localStorage]) = None
                   THEN defaultSettings
                   ELSE loadLocalSettings([localStorage |-> localStorage])[1])
  /\ editingSettings = settings
  /\ visualStyle = "bars"
  /\ editingVisualStyle = visualStyle
  /\ settingsOpen = FALSE
  /\ settingsSaving = FALSE
  /\ settingsError = ""
  /\ bins = Zeros(QUALITY_PROFILE[settings.quality].binCount)
  /\ spectrumFrameBins = bins
  /\ renderBinsBuffer = Zeros(BUFFER_BINS)
  /\ targetBinsBuffer = Zeros(BUFFER_BINS)
  /\ frameTimeSamples = <<>>
  /\ animationFrameHandle = NULL
  /\ frameQueue = [app |-> 0, canvas |-> 0]
  /\ spectrumCanvas = [mounted |-> FALSE, rafHandle |-> NULL]
  /\ lastRenderTs = 0
  /\ lastAnalysisTs = 0
  /\ lastPerfEvalTs = 0
  /\ downgradeBreachStartTs = 0
  /\ autoDowngradePending = FALSE
  /\ autoQualityMessage = None
  /\ qualityMessageTimer = NULL
  /\ perfFps = 0
  /\ perfFrameTimeMs = 0
  /\ perfFrameP95Ms = 0
  /\ barsCanvasRef = NULL
  /\ barsRenderMode = "dom"
  /\ barsWebglRenderer = NULL
  /\ bars2dContext = NULL
  /\ now = 1000
  /\ canvasContextMode = "none"
  /\ liveGl = [shaders |-> 0, programs |-> 0, buffers |-> 0]
  /\ autoTask = IdleTask
  /\ applyTask = IdleTask
  /\ mountPc = "start"
  /\ listening = FALSE
  /\ initRafPending = FALSE
  /\ unmounted = FALSE
  /\ used = [edits |-> 0, applies |-> 0, bursts |-> 0, clicks |-> 0, frames |-> 0,
             calls |-> 0]
  /\ breachSince = 0
  /\ backendSettled = FALSE
  /\ cooldown = [lastTs |-> 0, lastTo |-> NULL, lastFailed |-> FALSE,
                 timerTier |-> NULL, applyFailed |-> FALSE]
  /\ obs = NoObs("init")

Init ==
  /\ InitComponent(InitialStored)
  /\ call = NoCall

-----------------------------------------------------------------------------
(* Steps *)

\* the handler's result, then the watchers it woke; leaks stay within the bound
Step(s) ==
  LET next == FlushWatchers(Cur, s)
  IN /\ Leaked(next) <= MaxLeaked
     /\ Commit(next)

\* the probe outcomes that matter in state s
ProbesFor(needed) == IF needed THEN ProbeOutcomes ELSE {ProbeOk}

NeedsProbe(s) ==
  s.visualStyle = "bars" /\ s.barsCanvasRef # NULL
    /\ s.barsWebglRenderer = NULL /\ s.bars2dContext = NULL

\* the outcomes of the platform calls of an animation frame in state s
FrameOutcomes(s) ==
  {[probe EXCEPT !.draw = draw] :
     probe \in ProbesFor(NeedsProbe(s)),
     draw \in IF s.visualStyle = "bars" /\ s.barsCanvasRef # NULL
                THEN DrawOutcomes ELSE {"drawn"}}

\* gaps between two animation frames of a stalled page, and of a smooth one
StallGapsMs == {1000, 5000}

LongStallGapsMs == {5000}

SmoothGapsMs == {8}

\* one animation-frame callback and the watchers it wakes
Tick(s, t, probe) == FlushWatchers(s, renderFrame(s, t, probe))

\* n animation-frame callbacks in a row, gap ms apart
RECURSIVE Ticks(_, _, _, _)
Ticks(s, n, gap, probe) ==
  IF n = 0 THEN s
  ELSE IF n = 1 THEN Tick(s, s.now + gap, probe)
  ELSE LET half == Ticks(s, n \div 2, gap, probe)
       IN IF half = half THEN Ticks(half, n - n \div 2, gap, probe) ELSE half

\* onMounted up to the end of its try/catch: the backend answered, or not
MountSettings ==
  /\ mountPc = "start"
  /\ \E ok \in BOOLEAN :
       LET s == Begin("MountSettings")
           normalized == IF ok THEN normalizeSettings(AsJs(load_settings(s)))
                         ELSE normalizeSettings(AsJs(IF loadLocalSettings(s) = None
                                                  THEN defaultSettings
                                                  ELSE loadLocalSettings(s)[1]))
           s1 == [s EXCEPT !.settings = normalized, !.editingSettings = normalized,
                           !.mountPc = "settled"]
           s2 == IF ok THEN saveLocalSettings(s1, normalized) ELSE s1
       IN Step(syncDisplayBinLength(s2, normalized.quality))

\* the rest of onMounted: the listeners are registered, the loop starts
MountListen ==
  /\ mountPc = "settled"
  /\ Step(startRenderLoop([Begin("MountListen") EXCEPT !.listening = TRUE,
                                                      !.mountPc = "done"]))

\* the bars canvas is mounted: watch(barsCanvasRef) runs with the new canvas
CanvasMounted ==
  /\ ~unmounted /\ visualStyle = "bars" /\ barsCanvasRef = NULL
  /\ \E probe \in ProbeOutcomes :
       Step(initBarsRenderer([Begin("CanvasMounted") EXCEPT !.barsCanvasRef = "canvas",
                                                           !.canvasContextMode = "none"],
                             "canvas", probe))

\* the bars canvas has left: watch(barsCanvasRef) runs with null
CanvasUnmounted ==
  /\ ~unmounted /\ visualStyle # "bars" /\ barsCanvasRef # NULL
  /\ Step(disposeBarsRenderer([Begin("CanvasUnmounted") EXCEPT !.barsCanvasRef = NULL,
                                                             !.canvasContextMode = "none"]))

\* the rAF callback queued by watch(visualStyle)
InitRaf ==
  /\ initRafPending
  /\ \E probe \in ProbesFor(barsCanvasRef # NULL) :
       Step(initBarsRenderer([Begin("InitRaf") EXCEPT !.initRafPending = FALSE],
                             barsCanvasRef, probe))

\* one animation-frame callback, gap ms after the previous one
RenderFrameAfter(gaps, maxTime) ==
  /\ frameQueue.app > 0
  /\ \E gap \in gaps :
       /\ now + gap <= maxTime
       /\ \E probe \in FrameOutcomes(Cur) :
            Step(Tick(Begin("RenderFrame"), now + gap, probe))

\* one animation frame after a stall of a second or more
RenderFrame == RenderFrameAfter(StallGapsMs, MaxTime)

\* one animation frame after a stall of five seconds
RenderStalled == RenderFrameAfter(LongStallGapsMs, MaxStallTime)

\* one animation frame five seconds after the previous one, early in the run
RenderLoopFrame == RenderFrameAfter(LongStallGapsMs, MaxLoopTime)

\* one animation frame a second after the previous one, early in the run
RenderSteady == RenderFrameAfter({PERF_EVAL_INTERVAL_MS}, MaxRenderTime)

\* SmoothFrames animation frames in a row, no other event in between
RenderFrames ==
  /\ frameQueue.app > 0
  /\ \E gap \in SmoothGapsMs :
       /\ now + SmoothFrames * gap <= MaxTime
       /\ used.bursts < MaxBursts
       /\ \E probe \in FrameOutcomes(Cur) :
            Step(Ticks([Begin("RenderFrames") EXCEPT !.used.bursts = @ + 1],
                       SmoothFrames, gap, probe))

\* the native side handles save_settings of the automatic downgrade
AutoSave ==
  /\ autoTask.pc = "save"
  /\ \E ok \in BOOLEAN :
       LET s == Begin("AutoSave")
       IN IF ok
            THEN Step([save_settings(s, s.autoTask.next) EXCEPT !.autoTask.pc = "load"])
            ELSE Step(autoDowngradeCatch(s))

\* the native side handles load_settings of the automatic downgrade
AutoLoad ==
  /\ autoTask.pc = "load"
  /\ \E ok \in BOOLEAN :
       LET s == Begin("AutoLoad")
       IN IF ok
            THEN Step([s EXCEPT !.autoTask =
                         [s.autoTask EXCEPT !.pc = "resp"] @@ [latest |-> load_settings(s)]])
            ELSE Step(autoDowngradeCatch(s))

\* the answer of load_settings reaches the automatic downgrade
AutoResume ==
  /\ autoTask.pc = "resp"
  /\ LET s == Begin("AutoResume")
     IN Step(autoDowngradeFinally(
               persistSettingsTail(s, s.autoTask.latest, s.autoTask.sync)))

\* the user presses Apply
ApplySettings ==
  /\ ~unmounted /\ settingsOpen /\ ~settingsSaving /\ used.applies < MaxApplies
  /\ Step(applySettings([Begin("ApplySettings") EXCEPT !.used.applies = @ + 1]))

ApplySave ==
  /\ applyTask.pc = "save"
  /\ \E ok \in BOOLEAN :
       LET s == Begin("ApplySave")
       IN IF ok
            THEN Step([save_settings(s, s.applyTask.next) EXCEPT !.applyTask.pc = "load"])
            ELSE Step(applySettingsCatch(s))

ApplyLoad ==
  /\ applyTask.pc = "load"
  /\ \E ok \in BOOLEAN :
       LET s == Begin("ApplyLoad")
       IN IF ok
            THEN Step([s EXCEPT !.applyTask =
                         [s.applyTask EXCEPT !.pc = "resp"] @@ [latest |-> load_settings(s)]])
            ELSE Step(applySettingsCatch(s))

ApplyResume ==
  /\ applyTask.pc = "resp"
  /\ LET s == Begin("ApplyResume")
     IN Step(applySettingsTail(persistSettingsTail(s, s.applyTask.latest, TRUE)))

OpenSettings ==
  /\ ~unmounted
  /\ Step(openSettings(Begin("OpenSettings")))

\* the app:open_settings event
OpenSettingsEvent ==
  /\ listening
  /\ Step(openSettings(Begin("OpenSettingsEvent")))

CloseSettings ==
  /\ ~unmounted /\ settingsOpen
  /\ Step([Begin("CloseSettings") EXCEPT !.settingsOpen = FALSE, !.settingsError = ""])

\* the user picks a quality in the modal
EditQuality ==
  /\ ~unmounted /\ settingsOpen /\ used.edits < MaxEdits
  /\ \E q \in QUALITY_SET \ {editingSettings.quality} :
       Step([Begin("EditQuality") EXCEPT !.editingSettings.quality = q,
                                         !.used.edits = @ + 1])

ResetEditingSettings ==
  /\ ~unmounted /\ settingsOpen
  /\ Step([Begin("ResetEditingSettings") EXCEPT !.editingSettings = defaultSettings,
                                                !.editingVisualStyle = "bars"])

VisualStyles == {"bars", "wave"}

\* the user picks a style in the modal
UpdateVisualStyle ==
  /\ ~unmounted /\ settingsOpen
  /\ \E next \in VisualStyles \ {editingVisualStyle} :
       Step([Begin("UpdateVisualStyle") EXCEPT !.editingVisualStyle = next])

\* the style buttons of the visual panel
SetVisualStyle ==
  /\ ~unmounted
  /\ \E next \in VisualStyles \ {visualStyle} :
       Step([Begin("SetVisualStyle") EXCEPT !.visualStyle = next])

AnalysisFrame ==
  /\ listening
  /\ \E payload \in Payloads :
       Step(onAnalysisFrame(Begin("AnalysisFrame"), payload))

\* an animation frame or a resize of the SpectrumCanvas, which is mounted
\* while the style is not bars
CanvasDrawFrame ==
  /\ ~unmounted /\ visualStyle # "bars"
  /\ Step(drawFrame(Begin("CanvasDrawFrame")))

VisualPaused ==
  /\ listening
  /\ \E paused \in BOOLEAN :
       Step([Begin("VisualPaused") EXCEPT !.targetBinsBuffer =
               IF paused THEN Zeros(BUFFER_BINS) ELSE @])

ClickThroughChanged ==
  /\ listening /\ used.clicks < MaxClickEvents
  /\ \E value \in BOOLEAN :
       LET s == [Begin("ClickThroughChanged") EXCEPT !.used.clicks = @ + 1]
           s1 == [s EXCEPT !.settings.clickThrough = value]
           s2 == [s1 EXCEPT !.editingSettings =
                              IF ~s.settingsOpen THEN s1.settings ELSE @]
       IN Step(saveLocalSettings(s2, s2.settings))

\* the 5200 ms timer of showAutoQualityMessage fires
MessageTimeout ==
  /\ qualityMessageTimer # NULL
  /\ Step([Begin("MessageTimeout") EXCEPT !.autoQualityMessage = None,
                                          !.qualityMessageTimer = NULL])

\* onBeforeUnmount, and that of the SpectrumCanvas if there is one
Unmount ==
  /\ ~unmounted
  /\ LET s == [disposeBarsRenderer(stopRenderLoop(Begin("Unmount")))
                EXCEPT !.qualityMessageTimer = NULL, !.listening = FALSE,
                       !.unmounted = TRUE]
     IN Step(IF s.spectrumCanvas.mounted THEN canvasOnBeforeUnmount(s) ELSE s)

\* the style has left bars: a SpectrumCanvas is mounted
SpectrumMounted ==
  /\ ~unmounted /\ visualStyle # "bars" /\ ~spectrumCanvas.mounted
  /\ \E hasContext \in BOOLEAN :
       Step(canvasOnMounted(Begin("SpectrumMounted"), hasContext))

\* the style is bars again: the SpectrumCanvas is unmounted
SpectrumUnmounted ==
  /\ spectrumCanvas.mounted /\ visualStyle = "bars"
  /\ Step(canvasOnBeforeUnmount(Begin("SpectrumUnmounted")))

\* one animation-frame callback of the SpectrumCanvas loop
SpectrumFrame ==
  /\ frameQueue.canvas > 0
  /\ Step(canvasRender(Begin("SpectrumFrame")))

\* startRenderLoop() or stopRenderLoop() of the component called on its own,
\* whatever the loop is doing
CallRenderLoop ==
  /\ mountPc = "done" /\ used.calls < MaxLoopCalls
  /\ \E fn \in {"startRenderLoop", "stopRenderLoop"} :
       LET s == [Begin(fn) EXCEPT !.used.calls = @ + 1,
                                  !.call = [fn |-> fn,
                                            running |-> animationFrameHandle # NULL]]
       IN Step(IF fn = "startRenderLoop" THEN startRenderLoop(s)
               ELSE stopRenderLoop(s))

\* the same two functions of the SpectrumCanvas called on their own
CallCanvasRenderLoop ==
  /\ spectrumCanvas.mounted /\ used.calls < MaxLoopCalls
  /\ \E fn \in {"canvas.startRenderLoop", "canvas.stopRenderLoop"} :
       LET s == [Begin(fn) EXCEPT !.used.calls = @ + 1,
                                  !.call = [fn |-> fn,
                                            running |-> spectrumCanvas.rafHandle # NULL]]
       IN Step(IF fn = "canvas.startRenderLoop" THEN canvasStartRenderLoop(s)
               ELSE canvasStopRenderLoop(s))

\* The governor on its own: no user, no analysis frame, the style stays bars
\* and its canvas is not mounted.
NextGovernor ==
  \/ MountSettings
  \/ MountListen
  \/ RenderFrame
  \/ RenderFrames
  \/ AutoSave
  \/ AutoLoad
  \/ AutoResume

SpecGovernor == Init /\ [][NextGovernor]_vars

\* The settings: the user, the backend events and the automatic downgrade,
\* with every animation frame five seconds after the previous one.
NextSettings ==
  \/ MountSettings
  \/ MountListen
  \/ RenderStalled
  \/ AutoSave
  \/ AutoLoad
  \/ AutoResume
  \/ ApplySettings
  \/ ApplySave
  \/ ApplyLoad
  \/ ApplyResume
  \/ OpenSettings
  \/ OpenSettingsEvent
  \/ CloseSettings
  \/ EditQuality
  \/ MessageTimeout

SpecSettings == Init /\ [][NextSettings]_vars

\* The backend selection: the bars canvas comes and goes, the style is
\* switched, every animation frame comes five seconds after the previous one.
NextBackend ==
  \/ MountSettings
  \/ MountListen
  \/ CanvasMounted
  \/ CanvasUnmounted
  \/ InitRaf
  \/ SetVisualStyle
  \/ RenderStalled
  \/ AutoSave
  \/ AutoLoad
  \/ AutoResume
  \/ Unmount

SpecBackend == Init /\ [][NextBackend]_vars

\* The render buffers: analysis frames arrive and stop arriving.
NextRender ==
  \/ MountSettings
  \/ MountListen
  \/ RenderSteady
  \/ AnalysisFrame
  \/ VisualPaused

SpecRender == Init /\ [][NextRender]_vars

\* The frame buffers: analysis frames arrive, the component's loop turns them
\* into display frames, the SpectrumCanvas reads these.
NextFrames ==
  \/ MountSettings
  \/ MountListen
  \/ SetVisualStyle
  \/ RenderSteady
  \/ AnalysisFrame
  \/ VisualPaused
  \/ CanvasDrawFrame

SpecFrames == Init /\ [][NextFrames]_vars

\* The render loop next to everything that can be under way during a frame:
\* the canvas is mounted and probed, settings are applied, the quality is
\* downgraded, the component is unmounted.
NextLoop ==
  \/ MountSettings
  \/ MountListen
  \/ CanvasMounted
  \/ RenderLoopFrame
  \/ AutoSave
  \/ AutoLoad
  \/ AutoResume
  \/ OpenSettings
  \/ ApplySettings
  \/ ApplySave
  \/ ApplyLoad
  \/ ApplyResume
  \/ Unmount

SpecLoop == Init /\ [][NextLoop]_vars

\* The two render loops: the component's and the SpectrumCanvas's are started,
\* tick and are stopped; their start and stop functions are also called at
\* any moment.
NextLoops ==
  \/ MountSettings
  \/ MountListen
  \/ SetVisualStyle
  \/ RenderLoopFrame
  \/ SpectrumMounted
  \/ SpectrumUnmounted
  \/ SpectrumFrame
  \/ CallRenderLoop
  \/ CallCanvasRenderLoop
  \/ Unmount

SpecLoops == Init /\ [][NextLoops]_vars

-----------------------------------------------------------------------------
(* The governor's claims *)

\* the tier one level below tier, balanced staying balanced
TierBelow(tier) == QUALITY_ORDER[Min(IndexOfTier(tier) + 1, Len(QUALITY_ORDER) - 1) + 1]

C3_UnderBudgetResetsTimer ==
  [][/\ (obs'.evaluated /\ ~obs'.breach) => downgradeBreachStartTs' = 0
     /\ obs'.downgraded
        => /\ breachSince # 0
           /\ lastPerfEvalTs' - breachSince >= AUTO_DOWNGRADE_HOLD_MS]_vars

\* C3: an evaluation within budget, four seconds into a breach, reset the timer
C3_Witness ==
  /\ obs.evaluated /\ ~obs.breach
  /\ obs.held >= 4000
  /\ downgradeBreachStartTs = 0

-----------------------------------------------------------------------------
(* The automatic downgrade's claims *)

TierRises == IndexOfTier(settings'.quality) < IndexOfTier(settings.quality)

\* C2: settings.quality rises only when an applySettings call of the user
\* completes (the load at mount aside); no render tick, automatic downgrade
\* with its save and load, or backend event raises it.
C2_TierRisesOnlyByUserApply ==
  [][TierRises => \/ applyTask.pc = "resp" /\ applyTask'.pc = "idle"
                  \/ mountPc = "start" /\ mountPc' # "start"]_vars

\* C4: while an automatic downgrade is in flight, a further call of
\* autoDowngradeQuality changes neither the settings (the tier with them),
\* nor the display bin count, nor the notice, and starts no second
\* downgrade; the flag is up exactly while the one downgrade is in flight.
C4_OneDowngradeInFlight ==
  [][/\ (autoDowngradePending /\ obs'.downgradeCalls > 0)
        => /\ ~obs'.downgraded
           /\ settings' = settings
           /\ Len(bins') = Len(bins)
           /\ autoQualityMessage' = autoQualityMessage
           /\ qualityMessageTimer' = qualityMessageTimer
           /\ autoTask' = autoTask
           /\ autoDowngradePending'
     /\ autoDowngradePending' <=> autoTask'.pc # "idle"]_vars

\* C4: autoDowngradeQuality was called at tier high while the downgrade that
\* led to high was still in flight
C4_Witness ==
  /\ obs.downgradeCalls > 0 /\ ~obs.downgraded
  /\ autoDowngradePending /\ autoTask.to = "high"
  /\ settings.quality = "high"

C6_TransitionEffects ==
  [][/\ obs'.downgraded
        => /\ obs'.fromTier = settings.quality
           /\ obs'.toTier # obs'.fromTier
           /\ settings'.quality = obs'.toTier
           /\ Len(bins') = QUALITY_PROFILE[obs'.toTier].binCount
           /\ autoQualityMessage' =
                Some([from |-> obs'.fromTier, to |-> obs'.toTier, saveFailed |-> FALSE])
           /\ downgradeBreachStartTs' = 0
     /\ (autoTask.pc # "idle" /\ autoTask'.pc = "idle")
        => downgradeBreachStartTs' = 0]_vars

\* C6: the transition from ultra to high has just been made
C6_Witness ==
  /\ obs.downgraded /\ obs.fromTier = "ultra" /\ obs.toTier = "high"
  /\ settings.quality = "high" /\ Len(bins) = 48
  /\ autoQualityMessage = Some([from |-> "ultra", to |-> "high", saveFailed |-> FALSE])
  /\ downgradeBreachStartTs = 0

-----------------------------------------------------------------------------
(* The render buffers' and the backend selection's claims *)

\* C7: while no fresh analysis frame arrives, every render tick lowers the
\* eased amplitudes until they are zero: a tick on stale data never leaves a
\* renderBinsBuffer that is not all zero exactly as it found it.
C7_StaleTicksSettleToZero ==
  [][(obs'.staleTicks > 0 /\ renderBinsBuffer' = renderBinsBuffer)
     => \A i \in 1..Len(renderBinsBuffer) : renderBinsBuffer[i] = 0]_vars

\* C8: a run of initBarsRenderer whose WebGL2 probe fails makes exactly one
\* Canvas2D attempt, and leaves no shader, program or buffer allocated.
C8_FailedProbeLeavesNothing ==
  obs.probeFailed
    => /\ obs.canvas2dAttempts = 1
       /\ barsWebglRenderer = NULL
       /\ liveGl.shaders + liveGl.programs + liveGl.buffers = 0

\* C9: once initBarsRenderer has settled on a backend, the DOM path included,
\* a render tick does not run it again.
C9_SettledBackendNotReprobed ==
  [][(backendSettled /\ obs'.staleTicks + obs'.freshTicks > 0) => obs'.inits = 0]_vars

\* C10: across canvas replacements, style switches and unmounting, the GPU
\* objects alive are never more than those of one renderer: one program, one
\* vertex buffer, no shader.
C10_AtMostOneRenderersObjects ==
  /\ liveGl.shaders = 0
  /\ liveGl.programs <= 1
  /\ liveGl.buffers <= 1

-----------------------------------------------------------------------------
(* The settings store called on its own *)

\* values of the quality, smoothing and gain fields of an input
RawQualities ==
  {JsString("ultra"), JsString("high"), JsString("balanced"), JsString("bogus"),
   JsNumber(100), JsNull, JsUndefined}

RawSmoothings ==
  {JsNumber(-100), JsNumber(0), JsNumber(58), JsNumber(95), JsNumber(500), NaN,
   JsString("abc"), JsString("5"), JsString(""), JsNull, JsUndefined,
   JsObject(<<>>), JsBoolean(TRUE)}

RawGains ==
  {JsNumber(-100), JsNumber(20), JsNumber(180), JsNumber(600), JsNumber(1000), NaN,
   JsString("abc"), JsNull, JsObject(<<>>)}

\* inputs of normalizeSettings: null, undefined, values that are no objects,
\* objects with fields missing, objects with every field
RawInputs ==
  {JsNull, JsUndefined, JsNumber(500), JsString("abc"), JsObject(<<>>),
   JsObject([gain |-> JsNumber(-100)])}
  \cup {JsObject([quality |-> q, smoothing |-> sm, gain |-> g,
                  clickThrough |-> JsBoolean(TRUE)]) :
          q \in RawQualities, sm \in RawSmoothings, g \in RawGains}

StoreCalls ==
  {[fn |-> f, input |-> x, done |-> FALSE] :
     f \in {"normalizeSettings", "saveThenLoad"}, x \in RawInputs}

InitStore ==
  /\ InitComponent({None})
  /\ call \in StoreCalls

\* normalizeSettings(input)
CallNormalizeSettings ==
  /\ call.fn = "normalizeSettings" /\ ~call.done
  /\ Step([Begin("normalizeSettings") EXCEPT !.call =
             [fn |-> call.fn, input |-> call.input, done |-> TRUE,
              result |-> normalizeSettings(call.input)]])

\* saveLocalSettings(normalizeSettings(input)), then loadLocalSettings()
CallSaveThenLoad ==
  /\ call.fn = "saveThenLoad" /\ ~call.done
  /\ LET saved == normalizeSettings(call.input)
         s == saveLocalSettings(Begin("saveThenLoad"), saved)
     IN Step([s EXCEPT !.call =
                [fn |-> call.fn, input |-> call.input, done |-> TRUE,
                 saved |-> saved, result |-> loadLocalSettings(s)]])

NextStore ==
  \/ CallNormalizeSettings
  \/ CallSaveThenLoad

SpecStore == InitStore /\ [][NextStore]_vars

\* a number that is not NaN and lies in lo..hi
InRange(v, lo, hi) == ~IsNaN(v) /\ v.num >= lo /\ v.num <= hi

\* C11: whatever the input, normalizeSettings returns smoothing in [0, 0.95],
\* gain in [0.2, 6] and quality one of ultra, high, balanced.
C11_NormalizedWithinBounds ==
  (call.fn = "normalizeSettings" /\ call.done)
    => /\ call.result.quality \in QUALITY_SET
       /\ InRange(call.result.smoothing, 0, 95)
       /\ InRange(call.result.gain, 20, 600)

\* C12: for every input x, saveLocalSettings(normalizeSettings(x)) followed
\* by loadLocalSettings() returns a value equal to normalizeSettings(x).
C12_LocalRoundTrip ==
  (call.fn = "saveThenLoad" /\ call.done) => call.result = Some(call.saved)

-----------------------------------------------------------------------------
(* downsampleBins and percentile called on their own *)

MaxSourceLen == 3
MaxTargetCount == 4
MaxValuesLen == 5

\* amplitudes of a bin, in thousandths
AmplitudeSamples == {0, 400, 1000}

\* frame durations, in hundredths of a millisecond
DurationSamples == {300, 500, 2000}

\* ratios, in hundredths
RatioSamples == {0, 50, 95, 100}

\* widths of the canvas, in CSS pixels
CanvasWidths == {320, 490, 640}

\* the number of points drawWave asks for
WaveSampleCount(logicalWidth) == Max(18, Min(96, logicalWidth \div 10))

\* a frame with every bin at rest but one
OneHot(len, at) == [j \in 1..len |-> IF j = at THEN 1000 ELSE 0]

SeqsUpTo(values, maxLen) == UNION {[1..n -> values] : n \in 0..maxLen}

\* short arrays with every target count, and the frames of each tier as
\* drawWave samples them
DownsampleCalls ==
  {[fn |-> "downsampleBins", arrays |-> <<source>>, source |-> 1,
    targetCount |-> targetCount, done |-> FALSE] :
     source \in SeqsUpTo(AmplitudeSamples, MaxSourceLen),
     targetCount \in 1..MaxTargetCount}
  \cup UNION {{[fn |-> "downsampleBins",
                arrays |-> <<OneHot(qualityProfile(tier).binCount, at)>>,
                source |-> 1, targetCount |-> WaveSampleCount(width),
                done |-> FALSE] :
                 at \in 1..qualityProfile(tier).binCount, width \in CanvasWidths} :
              tier \in QUALITY_SET}

PercentileCalls ==
  {[fn |-> "percentile", arrays |-> <<values>>, values |-> 1, ratio |-> ratio,
    done |-> FALSE] :
     values \in SeqsUpTo(DurationSamples, MaxValuesLen), ratio \in RatioSamples}

InitFunctions ==
  /\ InitComponent({None})
  /\ call \in DownsampleCalls \cup PercentileCalls

\* downsampleBins(source, targetCount)
CallDownsampleBins ==
  /\ call.fn = "downsampleBins" /\ ~call.done
  /\ LET after == downsampleBinsOf(call.arrays, call.source, call.targetCount)
     IN Step([Begin("downsampleBins") EXCEPT !.call =
                [fn |-> call.fn, before |-> call.arrays, arrays |-> after,
                 source |-> call.source, targetCount |-> call.targetCount,
                 result |-> Len(after), done |-> TRUE]])

\* percentile(values, ratio)
CallPercentile ==
  /\ call.fn = "percentile" /\ ~call.done
  /\ LET returned == percentileOf(call.arrays, call.values, call.ratio)
     IN Step([Begin("percentile") EXCEPT !.call =
                [fn |-> call.fn, before |-> call.arrays,
                 arrays |-> returned.arrays, values |-> call.values,
                 ratio |-> call.ratio, result |-> returned.result,
                 done |-> TRUE]])

NextFunctions ==
  \/ CallDownsampleBins
  \/ CallPercentile

SpecFunctions == InitFunctions /\ [][NextFunctions]_vars

MaxOf(values) == CHOOSE m \in values : \A v \in values : v <= m

\* C13: when the source is longer than the target count, the result has
\* target-count entries and entry i is the maximum of the source over
\* [floor(i*len/target), max(start+1, floor((i+1)*len/target))).
C13_EachBinIsBucketMaximum ==
  (call.fn = "downsampleBins" /\ call.done
     /\ Len(call.before[call.source]) > call.targetCount)
    => LET source == call.before[call.source]
           output == call.arrays[call.result]
       IN /\ Len(output) = call.targetCount
          /\ \A i \in 0..(call.targetCount - 1) :
               LET start == (i * Len(source)) \div call.targetCount
                   end   == Max(start + 1,
                                ((i + 1) * Len(source)) \div call.targetCount)
               IN output[i + 1] = MaxOf({source[j + 1] : j \in start..(end - 1)})

\* C14: when the source is no longer than the target count, downsampleBins
\* returns a new array with the source's values in the source's order, and
\* the source is as it was.
C14_ShortSourceIsCopied ==
  (call.fn = "downsampleBins" /\ call.done
     /\ Len(call.before[call.source]) <= call.targetCount)
    => /\ call.result # call.source
       /\ call.arrays[call.result] = call.before[call.source]
       /\ call.arrays[call.source] = call.before[call.source]

C14_Witness ==
  /\ call.fn = "downsampleBins" /\ call.done
  /\ Len(call.before[call.source]) = 3 /\ call.targetCount = 4
  /\ call.before[call.source][1] > call.before[call.source][2]
  /\ call.arrays[call.result] = call.before[call.source]

\* the 1-based rank ceil(n * ratio), ratio in hundredths
CeilingRank(n, ratio) ==
  CHOOSE rank \in 0..n : rank * 100 >= n * ratio /\ (rank - 1) * 100 < n * ratio

\* C15: percentile returns 0 for an empty list and otherwise the value whose
\* 0-based position in ascending order is ceil(n * ratio) - 1 clamped to
\* [0, n - 1]; the p95 of [5, 5, 5, 5, 20] is 20; the caller's list keeps
\* its order.
C15_CeilingIndexedPercentile ==
  (call.fn = "percentile" /\ call.done)
    => LET values == call.before[call.values]
           n      == Len(values)
           index  == Max(0, Min(n - 1, CeilingRank(n, call.ratio) - 1))
       IN /\ n = 0 => call.result = 0
          /\ n > 0 =>
               /\ Cardinality({i \in 1..n : values[i] < call.result}) <= index
               /\ Cardinality({i \in 1..n : values[i] <= call.result}) > index
               /\ \E i \in 1..n : values[i] = call.result
          /\ (values = <<500, 500, 500, 500, 2000>> /\ call.ratio = 95)
               => call.result = 2000
          /\ call.arrays[call.values] = values

C15_Witness ==
  /\ call.fn = "percentile" /\ call.done
  /\ call.before[call.values] = <<2000, 500, 500, 500, 500>>
  /\ call.ratio = 95
  /\ call.result = 2000
  /\ call.arrays[call.values] = <<2000, 500, 500, 500, 500>>

-----------------------------------------------------------------------------
(* The render loop *)

\* C16: once startRenderLoop has scheduled a frame, a frame stays scheduled
\* after every step, each animation frame included, until stopRenderLoop
\* runs at unmount.
C16_EveryFrameSchedulesTheNext ==
  [][(animationFrameHandle = "scheduled" /\ ~unmounted')
       => animationFrameHandle' = "scheduled"]_vars

C16_Witness ==
  /\ obs.ticks > 0 /\ obs.probeFailed /\ obs.drawFailed
  /\ settingsSaving /\ autoDowngradePending
  /\ animationFrameHandle = "scheduled"

-----------------------------------------------------------------------------
(* The frame buffers *)

\* C17: the target frame is always one whole frame, the latest that arrived
\* (or the zeros of a pause), with all 64 entries from it; the frame store
\* always holds a whole display frame, the one of the latest animation frame,
\* and that is what a reader is handed.
C17_WholeFramesOnly ==
  /\ targetBinsBuffer \in {Zeros(BUFFER_BINS)} \cup {NextBins(payload) : payload \in Payloads}
  /\ obs.frames # <<>> => targetBinsBuffer = NextBins(obs.frames[Len(obs.frames)])
  /\ spectrumFrameBins = bins
  /\ Len(spectrumFrameBins) = qualityProfile(settings.quality).binCount
  /\ obs.ticks > 0 =>
       spectrumFrameBins =
         ResizeBins(buildDisplayBins(renderBinsBuffer,
                                     IF obs.downgraded THEN obs.fromTier
                                     ELSE settings.quality),
                    qualityProfile(settings.quality).binCount)
  /\ \A i \in 1..Len(obs.reads) : obs.reads[i] = spectrumFrameBins

C17_Witness ==
  /\ obs.reads # <<>>
  /\ Len(obs.reads[1]) = 48
  /\ \E i \in 1..48 : obs.reads[1][i] > 0
  /\ \E i \in 1..BUFFER_BINS : targetBinsBuffer[i] = 0 /\ renderBinsBuffer[i] > 0

-----------------------------------------------------------------------------
(* The cooldown between automatic downgrades *)

\* C18: an automatic downgrade that follows another one is made on a breach
\* timer started after that one, at the tier that one led to, and run for
\* AUTO_DOWNGRADE_HOLD_MS or more; one animation frame calls
\* autoDowngradeQuality at most once and makes at most one downgrade.
C18_CooldownBetweenDowngrades ==
  /\ \A i \in 1..Len(obs.downgrades) :
       LET d == obs.downgrades[i]
       IN d.lastTs # 0
            => /\ d.timerStart > d.lastTs
               /\ d.at - d.timerStart >= AUTO_DOWNGRADE_HOLD_MS
               /\ d.timerTier = d.from
               /\ d.from = d.lastTo
  /\ obs.ticks <= 1 => obs.downgradeCalls <= 1 /\ Len(obs.downgrades) <= 1
  /\ Len(obs.downgrades) <= 1

C18_Witness ==
  /\ obs.ticks = 1
  /\ Len(obs.downgrades) = 1
  /\ obs.downgrades[1].lastTs # 0
  /\ obs.downgrades[1].from = "high" /\ settings.quality = "balanced"

-----------------------------------------------------------------------------
(* Persisting fails *)

\* C19: when save_settings or load_settings rejects during an automatic
\* downgrade, the notice is shown again with the save-failed marker, the
\* settings stay as they are (the tier is not rolled back), the in-flight
\* guard is released and the breach timer is zero.
C19_FailedAutoSaveKeepsTier ==
  [][obs'.autoSaveFailed
       => /\ autoQualityMessage' = Some([from |-> autoTask.from, to |-> autoTask.to,
                                        saveFailed |-> TRUE])
          /\ qualityMessageTimer' # NULL
          /\ settings' = settings
          /\ Len(bins') = Len(bins)
          /\ ~autoDowngradePending'
          /\ downgradeBreachStartTs' = 0]_vars

\* C19: a later automatic downgrade, made after one whose persisting failed
C19_Witness ==
  /\ Len(obs.downgrades) = 1
  /\ obs.downgrades[1].lastFailed
  /\ obs.downgrades[1].from = "high" /\ settings.quality = "balanced"

\* C20: when persisting fails during applySettings, settings and visualStyle
\* keep their values, the modal stays open with an error and settingsSaving
\* is false again; when it succeeds the modal closes and settings is the
\* normalized value read back.
C20_FailedApplyKeepsModalOpen ==
  [][/\ obs'.applyFailed
          => /\ settings' = settings
             /\ visualStyle' = visualStyle
             /\ settingsOpen'
             /\ settingsError' # ""
             /\ ~settingsSaving'
     /\ obs'.applied
          => /\ ~settingsOpen'
             /\ settings' = normalizeSettings(AsJs(applyTask.latest))
             /\ ~settingsSaving']_vars

-----------------------------------------------------------------------------
(* The frame-time window, the display bins and the tick's elapsed time *)

\* C21: after a render tick the frame-time window ends with the sample of
\* this tick, holds no sample older than PERF_WINDOW_MS, is in the order of
\* its timestamps, and the p95 of an evaluation made by this tick is the
\* percentile of the durations of exactly these samples.
C21_WindowHoldsRecentSamples ==
  obs.ticks > 0 =>
    LET n == Len(frameTimeSamples)
    IN /\ n > 0
       /\ frameTimeSamples[n] = [ts |-> now, duration |-> perfFrameTimeMs]
       /\ \A i \in 1..n : now - frameTimeSamples[i].ts <= PERF_WINDOW_MS
       /\ \A i \in 1..(n - 1) : frameTimeSamples[i].ts <= frameTimeSamples[i + 1].ts
       /\ (obs.evaluated /\ lastPerfEvalTs = now)
            => perfFrameP95Ms =
                 percentile([i \in 1..n |-> frameTimeSamples[i].duration], 95)

\* C21: a tick that shifted a sample out of the window, kept more than its
\* own sample, and evaluated the performance
C21_Witness ==
  /\ obs.ticks > 0 /\ obs.evicted > 0 /\ obs.evaluated
  /\ lastPerfEvalTs = now
  /\ Len(frameTimeSamples) >= 2

\* a payload whose only bin above rest is bin at (1-based), at full scale
PeakPayload(at) ==
  [bins |-> [i \in 1..BUFFER_BINS |-> IF i = at THEN RAW_FULL_SCALE ELSE 0],
   rms |-> 0, peak |-> 0]

\* an analysis frame with a single peak, at any of the 64 positions
PeakFrame ==
  /\ listening
  /\ \E at \in 1..BUFFER_BINS :
       Step(onAnalysisFrame(Begin("PeakFrame"), PeakPayload(at)))

\* gap between two animation frames of a 60 Hz display
DisplayGapsMs == {16}

\* one animation frame 16 ms after the previous one
RenderDisplayFrame == RenderFrameAfter(DisplayGapsMs, MaxDisplayTime)

\* what may be stored under SETTINGS_KEY: nothing, or settings of any tier
StoredTiers ==
  {None} \cup {Some(JsonStringify([defaultSettings EXCEPT !.quality = tier])) :
                 tier \in QUALITY_SET}

InitDisplay ==
  /\ InitComponent(StoredTiers)
  /\ call = NoCall

\* The display bins: frames with one peak arrive, the loop eases towards them
\* and resamples to the tier's bin count.
NextDisplay ==
  \/ MountSettings
  \/ MountListen
  \/ PeakFrame
  \/ RenderDisplayFrame

SpecDisplay == InitDisplay /\ [][NextDisplay]_vars

\* the entries of a sequence
Entries(values) == {values[i] : i \in 1..Len(values)}

\* C22: after every render tick, at every tier, the largest display bin is
\* the largest entry of the eased 64-entry buffer.
C22_PeaksSurviveDecimation ==
  obs.ticks > 0 =>
    /\ Len(renderBinsBuffer) = BUFFER_BINS
    /\ MaxOf(Entries(bins)) = MaxOf(Entries(renderBinsBuffer))
    /\ spectrumFrameBins = bins

\* C22: a tick at tier high whose eased buffer is at rest but for its last
\* entry, which the last of the 48 display bins shows
C22_Witness ==
  /\ obs.ticks > 0 /\ settings.quality = "high"
  /\ renderBinsBuffer[BUFFER_BINS] > 0
  /\ \A i \in 1..(BUFFER_BINS - 1) : renderBinsBuffer[i] = 0
  /\ Len(bins) = 48 /\ bins[48] = renderBinsBuffer[BUFFER_BINS]

\* now - lastRenderTs at the first animation frame after startRenderLoop:
\* the frame's timestamp may lie before, at or after the performance.now()
\* that startRenderLoop read
FirstFrameGapsMs == {-4, 0, 1, 16, 50, 51, 5000}

\* now - lastRenderTs between two animation frames
FrameGapsMs == {1, 16, 50, 51, 5000}

\* one animation-frame callback after any gap
RenderElapsedFrame ==
  /\ frameQueue.app > 0 /\ used.frames < MaxElapsedFrames
  /\ \E gap \in (IF frameTimeSamples = <<>> THEN FirstFrameGapsMs ELSE FrameGapsMs) :
       \E probe \in FrameOutcomes(Cur) :
         Step(Tick([Begin("RenderElapsedFrame") EXCEPT !.used.frames = @ + 1],
                   now + gap, probe))

\* The elapsed time: animation frames after gaps of every size.
NextElapsed ==
  \/ MountSettings
  \/ MountListen
  \/ RenderElapsedFrame

SpecElapsed == Init /\ [][NextElapsed]_vars

\* C23: every sample of the frame-time window has a duration from 0.5 ms to
\* 50 ms, and the blend factor of every tick is above 0 and at most 1.
C23_ElapsedTimeIsClamped ==
  /\ \A i \in 1..Len(frameTimeSamples) :
       /\ frameTimeSamples[i].duration >= 50
       /\ frameTimeSamples[i].duration <= 5000
  /\ obs.ticks > 0 => /\ obs.blend.num > 0
                      /\ obs.blend.num <= obs.blend.den

\* C23: a window that holds the sample of a first frame stamped before the
\* loop's start, clamped up to 0.5 ms, and the sample of a frame that came
\* five seconds after its predecessor, clamped down to 50 ms
C23_Witness ==
  /\ obs.ticks > 0
  /\ Len(frameTimeSamples) >= 2
  /\ frameTimeSamples[1].ts < 1000 /\ frameTimeSamples[1].duration = 50
  /\ \E j \in 2..Len(frameTimeSamples) :
       /\ frameTimeSamples[j].ts - frameTimeSamples[j - 1].ts = 5000
       /\ frameTimeSamples[j].duration = 5000

-----------------------------------------------------------------------------
(* Settings changed by the program itself *)

\* Every way the settings change: the mount load, the user's Apply, the
\* automatic downgrade and the app:click_through_changed event, with every
\* animation frame five seconds after the previous one.
NextEvents ==
  \/ MountSettings
  \/ MountListen
  \/ RenderLoopFrame
  \/ AutoSave
  \/ AutoLoad
  \/ AutoResume
  \/ OpenSettings
  \/ EditQuality
  \/ ApplySettings
  \/ ApplySave
  \/ ApplyLoad
  \/ ApplyResume
  \/ ClickThroughChanged

SpecEvents == Init /\ [][NextEvents]_vars

\* C25: the display bins, and the frame store with them, have the bin count
\* of the tier in settings; the eased and the target buffer have 64 entries.
C25_DisplayLengthFollowsTier ==
  /\ Len(bins) = QUALITY_PROFILE[settings.quality].binCount
  /\ Len(spectrumFrameBins) = Len(bins)
  /\ Len(renderBinsBuffer) = BUFFER_BINS
  /\ Len(targetBinsBuffer) = BUFFER_BINS

\* C25: a tick downgrades high to balanced, in a run in which the user has
\* applied settings and the click-through event has switched it on
C25_Witness ==
  /\ obs.ticks > 0 /\ obs.downgraded
  /\ settings.quality = "balanced" /\ Len(bins) = 32
  /\ used.applies > 0 /\ used.clicks > 0 /\ settings.clickThrough

\* a step of the program itself: an animation frame, a step of the automatic
\* downgrade, or the app:click_through_changed event
AutomaticStep ==
  \/ obs'.ticks > 0
  \/ autoTask' # autoTask
  \/ used'.clicks # used.clicks

\* C26: while the settings modal is open, a step of the program itself
\* leaves editingSettings as the user has it.
C26_AutomaticStepsKeepEdits ==
  [][(settingsOpen /\ settingsOpen' /\ AutomaticStep)
       => editingSettings' = editingSettings]_vars

\* C27: when a persistSettings call returns and none is left in flight, the
\* last Apply and the last automatic downgrade having succeeded, the tier in
\* settings is the tier the native side holds.
C27_NoDriftAfterOverlap ==
  [][(/\ \/ applyTask.pc = "resp" /\ obs'.applied
         \/ autoTask.pc = "resp" /\ autoTask'.pc = "idle"
      /\ applyTask'.pc = "idle" /\ autoTask'.pc = "idle"
      /\ ~cooldown'.applyFailed /\ ~cooldown'.lastFailed)
       => settings'.quality = backendSettings'.quality]_vars

-----------------------------------------------------------------------------
(* The life of the render loop *)

\* C28: once the component is unmounted no animation frame is scheduled and
\* no backend listener is registered.
C28_UnmountedIsQuiet ==
  unmounted => /\ animationFrameHandle # "scheduled"
               /\ ~listening

\* C29: each render loop has at most one animation-frame callback queued; a
\* start while the loop runs changes nothing; a stopped loop has no callback
\* left and does not tick.
C29_OneCallbackPerLoop ==
  [][/\ frameQueue'.app <= 1 /\ frameQueue'.canvas <= 1
     /\ (animationFrameHandle' = NULL => frameQueue'.app = 0)
     /\ (spectrumCanvas'.rafHandle = NULL => frameQueue'.canvas = 0)
     /\ (obs'.ticks > 0 => animationFrameHandle = "scheduled")
     /\ (used'.calls # used.calls /\ call'.fn = "startRenderLoop" /\ call'.running)
          => UNCHANGED <<animationFrameHandle, frameQueue, lastRenderTs,
                         lastPerfEvalTs>>
     /\ (used'.calls # used.calls /\ call'.fn = "canvas.startRenderLoop"
           /\ call'.running)
          => UNCHANGED <<spectrumCanvas, frameQueue>>]_vars

\* startRenderLoop has been called while the loop ran, and the loop has just
\* ticked, next to a running SpectrumCanvas loop
C29_Witness ==
  /\ call.fn = "startRenderLoop" /\ call.running
  /\ obs.ticks > 0
  /\ frameQueue = [app |-> 1, canvas |-> 1]

-----------------------------------------------------------------------------
(* The selected backend *)

\* C30: the WebGL2 renderer and the 2D context are never both held, and
\* barsRenderMode is "webgl2" exactly when the renderer is held, "canvas2d"
\* exactly when the 2D context is held, "dom" exactly when neither is.
C30_BackendStateIsConsistent ==
  /\ ~(barsWebglRenderer # NULL /\ bars2dContext # NULL)
  /\ (barsRenderMode = "webgl2") <=> (barsWebglRenderer # NULL)
  /\ (barsRenderMode = "canvas2d") <=> (bars2dContext # NULL)
  /\ (barsRenderMode = "dom") <=> (barsWebglRenderer = NULL /\ bars2dContext = NULL)

\* a frame that found no backend, probed, fell back from WebGL2 to the 2D
\* context and drew with it
C30_Witness ==
  /\ obs.ticks > 0 /\ obs.inits > 0 /\ obs.probeFailed /\ obs.drawCalls > 0
  /\ barsRenderMode = "canvas2d" /\ bars2dContext # NULL

====
